---- MODULE Spec2Model ----
(***************************************************************************)
(* Dispatch core of afbmq: the Dispatcher (afbmq/dispatcher/dispatcher.py) *)
(* with its three handler chains, the StateFilter of                       *)
(* afbmq/dispatcher/filters/builtin.py and the asyncio tasks that          *)
(* process_entries, the detached-handler wrapper and its done callback     *)
(* create.  One asyncio task is one record; a step of the model is the     *)
(* code a task runs between two suspension points.  The Command, Text and  *)
(* IDFilter filters, current_state, the keywords of a registration and the *)
(* webhook handshake (afbmq/dispatcher/webhook.py) are functions of their  *)
(* inputs and are applied to each input on its own.                        *)
(***************************************************************************)
EXTENDS Integers, Sequences, FiniteSets, TLC

(***************************************************************************)
(* Values                                                                  *)
(***************************************************************************)
None == "None"
\* a ContextVar that has no value in the current context (get() raises LookupError)
Unset == "LookupError"

\* bounds of the model: entries of the message chain and of the error chain,
\* and entries of the message chain when a batch holds several events
MaxHandlers == 3
MaxErrorHandlers == 2
MaxBatchHandlers == 1
\* direct calls of process_event one caller makes one after another
MaxDirectCalls == 2

\* dispatcher.py:18
EVENT_OBJECT == "event_object"

\* types/event.py: MessageEvent(sender, recipient, ...); ids are non-empty strings
E1 == [type |-> "MessageEvent", sender |-> "u1", recipient |-> "p1"]
E2 == [type |-> "MessageEvent", sender |-> "u2", recipient |-> "p2"]
Events == {E1, E2}
\* types/event.py:29  a messaging slot is None or a MessageEvent
NoneSlot == [type |-> "NoneType", sender |-> None, recipient |-> None]
Slots == Events \cup {NoneSlot}
\* the shapes of an entry's messaging sequence: empty, first slot absent and a
\* message event after it, one message event, two message events
Messagings == {<< >>, <<NoneSlot, E1>>, <<E1>>, <<E2, E1>>}
Entry == [messaging : Messagings]
\* batches of one entry, and batches of up to two
SingleBatches == {<<a>> : a \in Entry}
Batches == SingleBatches \cup {<<a, b>> : a, b \in Entry}

\* conversations and what the storage collaborator holds for them
Convs == {<<e.recipient, e.sender>> : e \in Events}
StateNames == {None, "s1"}
\* what the storage holds when dispatching starts: nothing at all, or state
\* "s1" for the conversation of E2
Storages == {[c \in Convs |-> None],
             [c \in Convs |-> IF c = <<E2.recipient, E2.sender>> THEN "s1" ELSE None]}
\* the state= keyword of a registration
StateArgs == {None, "*", "s1"}
RunTaskArgs == {None, "True", "False"}
\* exceptions a callback can raise
HandlerExceptions == {"ValueError", "KeyError"}
\* outcome of the explicit (custom) filters of one entry for one event
FilterOutcomes == {"accept", "reject", "raise"}

VARIABLES
    events_handler,     \* Dispatcher.events_handler.handlers
    message_handlers,   \* Dispatcher.message_handlers.handlers
    errors_handlers,    \* Dispatcher.errors_handlers.handlers
    reg_result,         \* outcome of the last registration call
    storage,            \* (chat, user) -> state name held by the storage
    entries,            \* the batch process_entries is working on
    pe,                 \* the process_entries task: state and outcome
    tasks,              \* one record per event task that gather created
    dp_run_tasks_by_default,  \* Dispatcher.run_tasks_by_default
    close_waiter,       \* Dispatcher._close_waiter, a future
    waiters,            \* the callers of wait_closed
    last_call           \* the last filter check or request handled, with its result

\* what the dispatch of events leaves alone
aux == <<dp_run_tasks_by_default, close_waiter, waiters, last_call>>

vars == <<events_handler, message_handlers, errors_handlers, reg_result,
          storage, entries, pe, tasks, dp_run_tasks_by_default, close_waiter,
          waiters, last_call>>

(***************************************************************************)
(* Contexts.  A task runs in a copy of the context of the task that        *)
(* created it (contextvars), and carries the context mapping that          *)
(* task.context stands for.                                                *)
(***************************************************************************)
\* the context of the task that calls process_entries: no current sender or
\* recipient, no cached state, no event object (NoneSlot is Python's None
\* where an event is expected)
RootContext ==
    [sender |-> None, recipient |-> None, user_state |-> Unset, event_object |-> NoneSlot]

\* copy made by loop.create_task / asyncio.gather for the new task
CopyContext(ctx) == ctx

IsMessageEvent(x) == x.type = "MessageEvent"

Truthy(id) == id # None /\ id # ""

(***************************************************************************)
(* Filters                                                                 *)
(***************************************************************************)
\* mutation of StateFilter.required: the filter is built only when state= is given
StateFilter_optional == FALSE

\* builtin.py:325-326  StateFilter.key, StateFilter.required
StateFilter_key == "state"
StateFilter_required == TRUE

\* builtin.py:330-344  a single value becomes a one-element list of states
StateFilter_init(state) == [type |-> "StateFilter", states |-> {state}]

\* builtin.py:346-347
get_target(event) == <<event.recipient, event.sender>>

\* Storage.get_state: the stored state name, None when nothing is stored
get_state(store, chat, user) == store[<<chat, user>>]

\* mutation of StateFilter.check: no wildcard branch, '*' is compared like a name
StateFilter_check_no_wildcard(states, ctx, event, store) ==
    IF ctx.user_state = Unset
    THEN LET state == get_state(store, get_target(event)[1], get_target(event)[2])
         IN  [accept |-> state \in states,
              keys |-> IF state \in states THEN {"state", "raw_state"} ELSE {},
              user_state |-> state, reads |-> 1]
    ELSE [accept |-> ctx.user_state \in states,
          keys |-> IF ctx.user_state \in states THEN {"state", "raw_state"} ELSE {},
          user_state |-> ctx.user_state, reads |-> 0]

\* mutation of StateFilter.check: the state read is not stored in ctx_state
StateFilter_check_no_cache(states, ctx, event, store) ==
    IF "*" \in states
    THEN [accept |-> TRUE, keys |-> {"state"},
          user_state |-> ctx.user_state, reads |-> 0]
    ELSE LET state == get_state(store, get_target(event)[1], get_target(event)[2])
         IN  [accept |-> state \in states,
              keys |-> IF state \in states THEN {"state", "raw_state"} ELSE {},
              user_state |-> ctx.user_state, reads |-> 1]

\* builtin.py:349-367  StateFilter.check in the context ctx.  The result
\* carries the verdict, the keys yielded to the handler, the value the
\* ctx_state ContextVar has afterwards and the number of storage reads made.
StateFilter_check(states, ctx, event, store) ==
    IF "*" \in states
    THEN [accept |-> TRUE, keys |-> {"state"},
          user_state |-> ctx.user_state, reads |-> 0]
    ELSE IF ctx.user_state = Unset
    THEN LET chat == get_target(event)[1]
             user == get_target(event)[2]
         IN  IF Truthy(chat) \/ Truthy(user)
             THEN LET state == get_state(store, chat, user)
                  IN  [accept |-> state \in states,
                       keys |-> IF state \in states THEN {"state", "raw_state"} ELSE {},
                       user_state |-> state, reads |-> 1]
             ELSE [accept |-> FALSE, keys |-> {},
                   user_state |-> ctx.user_state, reads |-> 0]
    ELSE [accept |-> ctx.user_state \in states,
          keys |-> IF ctx.user_state \in states THEN {"state", "raw_state"} ELSE {},
          user_state |-> ctx.user_state, reads |-> 0]

(***************************************************************************)
(* FiltersFactory                                                          *)
(***************************************************************************)
\* mutation of _setup_filters: every type is bound without restriction
setup_filters_unrestricted ==
    LET bound == <<"StateFilter", "Command", "Text", "Regexp", "ExceptionsFilter",
                   "IDFilter", "IsReplyFilter">>
    IN  [k \in 1..Len(bound) |->
            [filter |-> bound[k], event_handlers |-> {}, exclude_event_handlers |-> {}]]

\* dispatcher.py:56-79  the bind table, in bind order.  event_handlers = {}
\* stands for "every chain".
setup_filters ==
    << [filter |-> "StateFilter", event_handlers |-> {}, exclude_event_handlers |-> {"errors_handlers"}],
       [filter |-> "Command", event_handlers |-> {"message_handlers"}, exclude_event_handlers |-> {}],
       [filter |-> "Text", event_handlers |-> {"message_handlers"}, exclude_event_handlers |-> {}],
       [filter |-> "Regexp", event_handlers |-> {"message_handlers"}, exclude_event_handlers |-> {}],
       [filter |-> "ExceptionsFilter", event_handlers |-> {"errors_handlers"}, exclude_event_handlers |-> {}],
       [filter |-> "IDFilter", event_handlers |-> {"message_handlers"}, exclude_event_handlers |-> {}],
       [filter |-> "IsReplyFilter", event_handlers |-> {"message_handlers"}, exclude_event_handlers |-> {}] >>

\* a bound filter type is offered the keywords of a chain it is eligible for
Eligible(record, chain) ==
    /\ chain \notin record.exclude_event_handlers
    /\ record.event_handlers = {} \/ chain \in record.event_handlers

\* BoundFilter.validate: the keyword when it was given, the default (None)
\* when the filter is required, nothing otherwise.  A keyword whose value is
\* None was not given.
BoundFilter_validate(key, required, full_config) ==
    IF full_config[key] # None THEN <<full_config[key]>>
    ELSE IF required THEN <<None>>
    ELSE << >>

\* FiltersFactory.resolve for the keywords state=...: the filters built from
\* the bound types, in bind order (the explicit filters of the registration
\* follow them; they are opaque predicates and are not part of this list)
resolve(chain, full_config) ==
    LET claimed == IF Eligible(setup_filters[1], chain)
                   THEN BoundFilter_validate(StateFilter_key, StateFilter_required, full_config)
                   ELSE << >>
    IN  IF claimed = << >> THEN << >> ELSE <<StateFilter_init(claimed[1])>>

(***************************************************************************)
(* Registration                                                            *)
(***************************************************************************)
\* dispatcher.py:37  the value __init__ gives the attribute
run_tasks_by_default == TRUE

\* mutation of _wrap_async_task: run_task is ignored, every callback is wrapped
wrap_async_task_always(run_task) == TRUE

\* mutation of _wrap_async_task: run_task is ignored, the default decides
wrap_async_task_default_only(run_task) == dp_run_tasks_by_default

\* dispatcher.py:162-168  TRUE when the callback is wrapped by async_task
wrap_async_task(run_task) ==
    LET effective == IF run_task = None THEN dp_run_tasks_by_default ELSE run_task = "True"
    IN  effective

\* mutation of register_message_handler: the callback is registered before
\* the filters are resolved, so a failing call leaves an entry behind
register_message_handler_early(custom_filters, state, run_task) ==
    /\ pe.state = "idle"
    /\ Len(message_handlers) < MaxHandlers
    /\ message_handlers' = Append(message_handlers,
            [state |-> state, run_task |-> run_task,
             default |-> dp_run_tasks_by_default,
             filters |-> IF custom_filters = None THEN << >>
                         ELSE resolve("message_handlers", [state |-> state]),
             detached |-> wrap_async_task(run_task)])
    /\ reg_result' = IF custom_filters = None THEN "TypeError" ELSE "registered"
    /\ UNCHANGED <<aux, events_handler, errors_handlers, storage, entries, pe, tasks>>

\* dispatcher.py:107-116.  custom_filters is None (the default of the direct
\* call, which *custom_filters cannot unpack) or a tuple of explicit filters.
\* The entry keeps the keywords it was registered with, and the default run
\* mode of that moment, beside what they resolved to.
register_message_handler(custom_filters, state, run_task) ==
    /\ pe.state = "idle"
    /\ Len(message_handlers) < MaxHandlers
    /\ IF custom_filters = None
       THEN /\ reg_result' = "TypeError"
            /\ UNCHANGED message_handlers
       ELSE /\ message_handlers' = Append(message_handlers,
                    [state |-> state, run_task |-> run_task,
                     default |-> dp_run_tasks_by_default,
                     filters |-> resolve("message_handlers", [state |-> state]),
                     detached |-> wrap_async_task(run_task)])
            /\ reg_result' = "registered"
    /\ UNCHANGED <<aux, events_handler, errors_handlers, storage, entries, pe, tasks>>

\* dispatcher.py:118-128  the decorator always passes its *custom_filters tuple
message_handler(state, run_task) ==
    register_message_handler("tuple", state, run_task)

\* Handler.register on the error chain: appends one entry
errors_handlers_register ==
    /\ pe.state = "idle"
    /\ Len(errors_handlers) < MaxErrorHandlers
    /\ errors_handlers' = Append(errors_handlers, [callback |-> Len(errors_handlers) + 1])
    /\ reg_result' = "registered"
    /\ UNCHANGED <<aux, events_handler, message_handlers, storage, entries, pe, tasks>>

(***************************************************************************)
(* Tasks                                                                   *)
(***************************************************************************)
\* mutations of the once flags: the message chain built with once=False,
\* the error chain built with the default once=True
message_handlers_notify_all == FALSE
errors_handlers_first_only == TRUE

\* dispatcher.py:41 and :42  the chains' once flags
message_handlers_once == TRUE
errors_handlers_once == FALSE

\* the event task gather creates for events_handler.notify(event); it starts
\* in a copy of the context of the process_entries task
NewTask(k, event) ==
    [entry |-> k, event |-> event, pc |-> "ready", i |-> 0,
     ctx |-> CopyContext(RootContext), reads |-> 0,
     evaluated |-> << >>, invoked |-> << >>, exc |-> None,
     dpc |-> "none", dctx |-> RootContext, dexc |-> None, responded |-> FALSE,
     notified |-> << >>, epc |-> "none", ei |-> 0,
     eevaluated |-> << >>, einvoked |-> << >>]

\* mutation of the slot choice: the first slot that holds a message event
first_message_slot(entry) ==
    LET found == {j \in 1..Len(entry.messaging) : IsMessageEvent(entry.messaging[j])}
    IN  IF found = {} THEN entry.messaging[1]
        ELSE entry.messaging[CHOOSE j \in found : \A k \in found : j <= k]

\* dispatcher.py:90  the one slot of an entry that is looked at
first_slot(entry) == entry.messaging[1]

\* dispatcher.py:88-92  the loop over the entries; entry.messaging[0] raises
\* IndexError on an empty sequence, and the coroutines queued before it are
\* then never run
RECURSIVE queue_tasks(_, _, _)
queue_tasks(batch, k, acc) ==
    IF k > Len(batch) THEN [raised |-> None, tasks |-> acc]
    ELSE IF Len(batch[k].messaging) = 0 THEN [raised |-> "IndexError", tasks |-> << >>]
    ELSE LET event == first_slot(batch[k])
         IN  IF IsMessageEvent(event)
             THEN queue_tasks(batch, k + 1, Append(acc, NewTask(k, event)))
             ELSE queue_tasks(batch, k + 1, acc)

Finished(t) ==
    /\ t.pc \in {"done", "failed"}
    /\ t.dpc = "none" \/ t.responded
    /\ t.epc \in {"none", "done", "failed"}

\* no task of an earlier batch is still running
Quiescent ==
    /\ pe.state \in {"idle", "returned", "raised"}
    /\ \A n \in 1..Len(tasks) : Finished(tasks[n])

\* webhook.py:104 and dispatcher.py:81-93 up to the await of gather
process_entries(batch) ==
    /\ Quiescent
    /\ LET queued == queue_tasks(batch, 1, << >>)
       IN  /\ tasks' = queued.tasks
           /\ pe' = IF queued.raised # None
                    THEN [state |-> "raised", exc |-> queued.raised]
                    ELSE [state |-> "gather", exc |-> None]
    /\ entries' = batch
    /\ reg_result' = None
    /\ UNCHANGED <<aux, events_handler, message_handlers, errors_handlers, storage>>

\* dispatcher.py:93  gather fails with the first exception one of its tasks
\* raised, and otherwise returns when they have all returned
process_entries_return ==
    /\ pe.state = "gather"
    /\ \/ /\ pe.exc # None
          /\ pe' = [pe EXCEPT !.state = "raised"]
       \/ /\ pe.exc = None
          /\ \A n \in 1..Len(tasks) : tasks[n].pc = "done"
          /\ pe' = [pe EXCEPT !.state = "returned"]
    /\ UNCHANGED <<aux, events_handler, message_handlers, errors_handlers, reg_result,
                   storage, entries, tasks>>

\* mutation of gather: the first exception cancels the tasks still running
Raise_cancels_others(n, e, rec) ==
    /\ tasks' = [m \in 1..Len(tasks) |->
                    IF m = n THEN [rec EXCEPT !.pc = "failed", !.exc = e]
                    ELSE IF tasks[m].pc \in {"done", "failed"} THEN tasks[m]
                    ELSE [tasks[m] EXCEPT !.pc = "failed", !.exc = "CancelledError"]]
    /\ pe' = IF pe.state = "gather" /\ pe.exc = None THEN [pe EXCEPT !.exc = e] ELSE pe

\* an event task ends with exception e: gather records the first one
Raise(n, e, rec) ==
    /\ tasks' = [tasks EXCEPT ![n] = [rec EXCEPT !.pc = "failed", !.exc = e]]
    /\ pe' = IF pe.state = "gather" /\ pe.exc = None THEN [pe EXCEPT !.exc = e] ELSE pe

\* mutation of process_event: the current sender is not set
set_current_recipient_only(ctx, event) ==
    [ctx EXCEPT !.recipient = event.recipient]

\* dispatcher.py:103-104
set_current(ctx, event) ==
    [ctx EXCEPT !.recipient = event.recipient, !.sender = event.sender]

\* events_handler.notify(event) invokes its one entry, process_event
\* (dispatcher.py:45, 95-105), which enters message_handlers.notify
process_event(n) ==
    /\ tasks[n].pc = "ready"
    /\ Len(events_handler) = 1
    /\ IsMessageEvent(tasks[n].event)
    /\ tasks' = [tasks EXCEPT ![n] =
                    [@ EXCEPT !.ctx = set_current(@, tasks[n].event),
                              !.i = 1,
                              !.pc = IF Len(message_handlers) = 0 THEN "done" ELSE "notify"]]
    /\ UNCHANGED <<aux, events_handler, message_handlers, errors_handlers, reg_result,
                   storage, entries, pe>>

\* mutation of the wrapper: it awaits the callback instead of creating a task
wrapper_awaits(ctx) == [pc |-> "handler", dpc |-> "none", dctx |-> RootContext]

\* dispatcher.py:155-160  the detached wrapper: creates the task for the
\* callback in a copy of the current context, adds the done callback and
\* returns None at once
wrapper(ctx) == [pc |-> "returned", dpc |-> "pending", dctx |-> CopyContext(ctx)]

\* an unwrapped callback is awaited by notify
inline(ctx) == [pc |-> "handler", dpc |-> "none", dctx |-> RootContext]

\* Handler.notify after a callback returned: a once chain stops, a
\* notify-all chain goes on with the next entry
AfterCallback(once, i, len) ==
    IF once \/ i + 1 > len THEN [pc |-> "done", i |-> i] ELSE [pc |-> "notify", i |-> i + 1]

\* mutation: a notify that found no accepting entry ends with an error
AfterReject_no_match_fails(i, len) ==
    IF i + 1 > len THEN [pc |-> "failed", i |-> i] ELSE [pc |-> "notify", i |-> i + 1]

\* Handler.notify after an entry's filters rejected
AfterReject(i, len) ==
    IF i + 1 > len THEN [pc |-> "done", i |-> i] ELSE [pc |-> "notify", i |-> i + 1]

\* the filters resolved from the keywords, evaluated as a conjunction
RECURSIVE check_filters(_, _, _, _)
check_filters(filters, ctx, event, store) ==
    IF filters = << >>
    THEN [accept |-> TRUE, keys |-> {}, user_state |-> ctx.user_state, reads |-> 0]
    ELSE LET first == StateFilter_check(Head(filters).states, ctx, event, store)
         IN  IF ~first.accept THEN first
             ELSE LET rest == check_filters(Tail(filters),
                                            [ctx EXCEPT !.user_state = first.user_state],
                                            event, store)
                  IN  [rest EXCEPT !.keys = first.keys \cup @, !.reads = first.reads + @]

\* message_handlers.notify(event, event.message): the evaluation of entry i.
\* custom is the outcome of the entry's explicit filters for this event.
notify(n, custom) ==
    /\ tasks[n].pc = "notify"
    /\ LET t == tasks[n]
           i == t.i
           h == message_handlers[i]
           len == Len(message_handlers)
           bound == check_filters(h.filters, t.ctx, t.event, storage)
           result == IF bound.accept THEN custom ELSE "reject"
           seen == [t EXCEPT !.ctx.user_state = bound.user_state,
                             !.reads = @ + bound.reads,
                             !.evaluated = Append(@, [idx |-> i, bound |-> bound.accept,
                                                       result |-> result])]
       IN  /\ ~bound.accept => custom = "reject"
           /\ CASE result = "reject" ->
                     /\ tasks' = [tasks EXCEPT ![n] =
                                    [seen EXCEPT !.pc = AfterReject(i, len).pc,
                                                 !.i = AfterReject(i, len).i]]
                     /\ UNCHANGED pe
                [] result = "raise" -> Raise(n, "FilterError", seen)
                [] result = "accept" ->
                     LET call == IF h.detached THEN wrapper(seen.ctx) ELSE inline(seen.ctx)
                         called == [seen EXCEPT !.invoked = Append(@, i),
                                                !.dpc = call.dpc, !.dctx = call.dctx]
                         next == AfterCallback(message_handlers_once, i, len)
                     IN  /\ tasks' = [tasks EXCEPT ![n] =
                                        IF call.pc = "returned"
                                        THEN [called EXCEPT !.pc = next.pc, !.i = next.i]
                                        ELSE [called EXCEPT !.pc = "handler"]]
                         /\ UNCHANGED pe
    /\ UNCHANGED <<aux, events_handler, message_handlers, errors_handlers, reg_result,
                   storage, entries>>

\* an inline callback returns: notify goes on as the chain's once flag says
handler_return(n) ==
    /\ tasks[n].pc = "handler"
    /\ LET next == AfterCallback(message_handlers_once, tasks[n].i, Len(message_handlers))
       IN  tasks' = [tasks EXCEPT ![n] = [@ EXCEPT !.pc = next.pc, !.i = next.i]]
    /\ UNCHANGED <<aux, events_handler, message_handlers, errors_handlers, reg_result,
                   storage, entries, pe>>

\* an inline callback raises e: notify, process_event and the event task
\* end with e
handler_raise(n, e) ==
    /\ tasks[n].pc = "handler"
    /\ Raise(n, e, tasks[n])
    /\ UNCHANGED <<aux, events_handler, message_handlers, errors_handlers, reg_result,
                   storage, entries>>

\* the task of a detached callback returns
detached_return(n) ==
    /\ tasks[n].dpc = "pending"
    /\ tasks' = [tasks EXCEPT ![n] = [@ EXCEPT !.dpc = "returned"]]
    /\ UNCHANGED <<aux, events_handler, message_handlers, errors_handlers, reg_result,
                   storage, entries, pe>>

\* the task of a detached callback raises e
detached_raise(n, e) ==
    /\ tasks[n].dpc = "pending"
    /\ tasks' = [tasks EXCEPT ![n] = [@ EXCEPT !.dpc = "raised", !.dexc = e]]
    /\ UNCHANGED <<aux, events_handler, message_handlers, errors_handlers, reg_result,
                   storage, entries, pe>>

\* dispatcher.py:153  task.context.get(EVENT_OBJECT, None): the context
\* mapping of the finished task; nothing in process_event stores the event
\* under EVENT_OBJECT
task_context_get(ctx, key) == ctx[key]

\* dispatcher.py:147-153  the done callback of a detached task: on an
\* exception it creates the task of errors_handlers.notify(self, event, e)
process_response(n) ==
    /\ tasks[n].dpc \in {"returned", "raised"}
    /\ ~tasks[n].responded
    /\ LET t == tasks[n]
       IN  tasks' = [tasks EXCEPT ![n] =
              IF t.dpc = "raised"
              THEN [t EXCEPT !.responded = TRUE,
                             !.notified = Append(@, [dispatcher |-> "self",
                                                     event |-> task_context_get(t.dctx, EVENT_OBJECT),
                                                     exception |-> t.dexc]),
                             !.epc = IF Len(errors_handlers) = 0 THEN "done" ELSE "notify",
                             !.ei = 1]
              ELSE [t EXCEPT !.responded = TRUE]]
    /\ UNCHANGED <<aux, events_handler, message_handlers, errors_handlers, reg_result,
                   storage, entries, pe>>

\* mutation: the exception of an error handler is forwarded to the error
\* chain like the exception of a detached handler
errors_task_raised_rerouted(t) ==
    [t EXCEPT !.notified = Append(@, [dispatcher |-> "self", event |-> NoneSlot,
                                      exception |-> "ErrorHandlerError"]),
              !.epc = "notify", !.ei = 1]

\* dispatcher.py:152-153  the task of errors_handlers.notify is created
\* without a done callback: when an error handler raises, the task ends with
\* that exception and nothing looks at it
errors_task_raised(t) == [t EXCEPT !.epc = "failed"]

\* errors_handlers.notify(self, event, e): the evaluation of entry ei.
\* custom is the outcome of the entry's filters, outcome what its callback
\* does when it is invoked.  An exception of an error handler ends the
\* notification; it is not routed anywhere.
errors_notify(n, custom, outcome) ==
    /\ tasks[n].epc = "notify"
    /\ custom = "reject" => outcome = "return"
    /\ LET t == tasks[n]
           i == t.ei
           len == Len(errors_handlers)
           seen == [t EXCEPT !.eevaluated = Append(@, [idx |-> i, result |-> custom])]
           next == IF custom = "reject" THEN AfterReject(i, len)
                   ELSE AfterCallback(errors_handlers_once, i, len)
       IN  tasks' = [tasks EXCEPT ![n] =
              IF custom = "reject"
              THEN [seen EXCEPT !.epc = next.pc, !.ei = next.i]
              ELSE IF outcome = "raise"
              THEN errors_task_raised([seen EXCEPT !.einvoked = Append(@, i)])
              ELSE [seen EXCEPT !.einvoked = Append(@, i), !.epc = next.pc, !.ei = next.i]]
    /\ UNCHANGED <<aux, events_handler, message_handlers, errors_handlers, reg_result,
                   storage, entries, pe>>

(***************************************************************************)
(* Python values of the filters.  A str is a sequence of one-character     *)
(* strings; a configured value that may be a single str or a list carries  *)
(* its type.                                                               *)
(***************************************************************************)
dispatch == <<events_handler, message_handlers, errors_handlers, reg_result,
              storage, entries, pe, tasks>>

\* no filter was checked and no request handled yet; each check and each
\* request is looked at on its own, starting from here
NoCall == [fn |-> "none"]

PyStr(s) == [t |-> "str", v |-> s]
PyList(l) == [t |-> "list", v |-> l]
PyInt(n) == [t |-> "int", v |-> n]
\* None where a str is expected
PyNone == [t |-> "NoneType", v |-> << >>]

\* str.lower on one character, for the letters the texts are made of
Lower(c) ==
    CASE c = "A" -> "a"
      [] c = "S" -> "s"
      [] c = "T" -> "t"
      [] c = "R" -> "r"
      [] OTHER -> c

\* str.lower
str_lower(s) == [k \in 1..Len(s) |-> Lower(s[k])]

IsSpace(c) == c = " "

\* str.split(): the maximal runs of characters that are not whitespace
RECURSIVE str_split(_)
str_split(s) ==
    IF s = << >> THEN << >>
    ELSE IF IsSpace(Head(s)) THEN str_split(Tail(s))
    ELSE LET stop == CHOOSE k \in 1..(Len(s) + 1) :
                        /\ k = Len(s) + 1 \/ IsSpace(s[k])
                        /\ \A j \in 1..(k - 1) : ~IsSpace(s[j])
         IN  <<SubSeq(s, 1, stop - 1)>> \o str_split(SubSeq(s, stop, Len(s)))

\* str.partition(sep) for a one-character separator
str_partition(s, sep) ==
    LET found == {k \in 1..Len(s) : s[k] = sep}
    IN  IF found = {} THEN << s, << >>, << >> >>
        ELSE LET k == CHOOSE j \in found : \A m \in found : j <= m
             IN  << SubSeq(s, 1, k - 1), <<sep>>, SubSeq(s, k + 1, Len(s)) >>

\* sub in s
str_contains(s, sub) ==
    \E k \in 0..(Len(s) - Len(sub)) : SubSeq(s, k + 1, k + Len(sub)) = sub

\* s.startswith(affix), s.endswith(affix)
str_startswith(s, affix) ==
    Len(affix) <= Len(s) /\ SubSeq(s, 1, Len(affix)) = affix
str_endswith(s, affix) ==
    Len(affix) <= Len(s) /\ SubSeq(s, Len(s) - Len(affix) + 1, Len(s)) = affix

\* x in l for a list l of str
list_contains(l, x) == \E k \in 1..Len(l) : l[k] = x

\* map(f, l) for f = str.lower
map_lower(l) == [k \in 1..Len(l) |-> str_lower(l[k])]

(***************************************************************************)
(* Command filter                                                          *)
(***************************************************************************)
\* mutation of Command.__init__: the configured commands are kept as given
Command_init_keep_case(commands, prefixes, ignore_case, ignore_mention) ==
    LET listed == IF commands.t = "str" THEN <<commands.v>> ELSE commands.v
    IN  [commands |-> listed, prefixes |-> prefixes,
         ignore_case |-> ignore_case, ignore_mention |-> ignore_mention]

\* builtin.py:46-52  Command.__init__
Command_init(commands, prefixes, ignore_case, ignore_mention) ==
    LET listed == IF commands.t = "str" THEN <<commands.v>> ELSE commands.v
    IN  [commands |-> IF ignore_case THEN map_lower(listed) ELSE listed,
         prefixes |-> prefixes,
         ignore_case |-> ignore_case, ignore_mention |-> ignore_mention]

\* builtin.py:97-112  Command.CommandObj; args has the default None
CommandObj(command, prefix, mention) ==
    [prefix |-> prefix, command |-> command, mention |-> mention, args |-> PyNone]

\* what a check returns when it rejects or raises
Rejected == [accept |-> FALSE, raised |-> None, keys |-> {}, command |-> None]
Raised(e) == [accept |-> FALSE, raised |-> e, keys |-> {}, command |-> None]

\* builtin.py:80-95  Command.check_command on the text of a message.  FB has
\* no attribute me (fb.py:23-44), so the comparison of a mention with the
\* bot's own user name raises AttributeError.
check_command(text, commands, prefixes, ignore_case, ignore_mention) ==
    IF text = << >> THEN Rejected
    ELSE IF str_split(text) = << >> THEN Raised("IndexError")
    ELSE LET full_command == str_split(text)[1]
             prefix == SubSeq(full_command, 1, 1)
             parts == str_partition(SubSeq(full_command, 2, Len(full_command)), "@")
             command == parts[1]
             mention == parts[3]
         IN  IF ~ignore_mention /\ mention # << >> THEN Raised("AttributeError")
             ELSE IF ~str_contains(prefixes, prefix) THEN Rejected
             ELSE IF ~list_contains(commands, IF ignore_case THEN str_lower(command) ELSE command)
             THEN Rejected
             ELSE [accept |-> TRUE, raised |-> None, keys |-> {"command"},
                   command |-> CommandObj(command, prefix, mention)]

\* builtin.py:77-78  Command.check
Command_check(filter, text) ==
    check_command(text, filter.commands, filter.prefixes,
                  filter.ignore_case, filter.ignore_mention)

\* characters of the message texts, and the texts: every text of up to
\* MaxTextLen characters and the text "/START hello"
Chars == {"/", "!", "a", "A", "b", " "}
MaxTextLen == 4
StartHello == <<"/", "S", "T", "A", "R", "T", " ", "h", "e", "l", "l", "o">>
RECURSIVE StrUpTo(_, _)
StrUpTo(chars, n) ==
    IF n = 0 THEN {<< >>}
    ELSE LET shorter == StrUpTo(chars, n - 1)
         IN  shorter \cup {Append(s, c) : s \in shorter, c \in chars}
Texts == StrUpTo(Chars, MaxTextLen) \cup {StartHello}

\* configurations of a Command filter: a single command or a list of them,
\* one or two prefix characters
CommandNames == {<<"a">>, <<"A">>, <<"a", "b">>, <<"s", "t", "a", "r", "t">>}
CommandConfigs ==
    {PyStr(c) : c \in CommandNames}
        \cup {PyList(<<c>>) : c \in CommandNames}
        \cup {PyList(<<<<"A">>, <<"a", "b">>>>)}
PrefixConfigs == {<<"/">>, <<"!", "/">>}

\* a Command filter is built and checked against the text of one message
Command_check_call ==
    /\ last_call = NoCall
    /\ \E commands \in CommandConfigs, prefixes \in PrefixConfigs,
          ignore_case \in BOOLEAN, text \in Texts :
            LET filter == Command_init(commands, prefixes, ignore_case, FALSE)
            IN  last_call' = [fn |-> "Command.check", commands |-> commands,
                         prefixes |-> prefixes, ignore_case |-> ignore_case,
                         text |-> text, result |-> Command_check(filter, text)]
    /\ UNCHANGED <<dispatch, dp_run_tasks_by_default, close_waiter, waiters>>

(***************************************************************************)
(* Text filter                                                             *)
(***************************************************************************)
\* the modes given to Text.__init__, in the order of the test of builtin.py:236
ModesGiven(equals, contains, startswith, endswith) ==
    Cardinality({k \in 1..4 : <<equals, contains, startswith, endswith>>[k] # PyNone})

\* builtin.py:247-249  a single str becomes a list of one element
as_list(e) == IF e.t = "str" THEN PyList(<<e.v>>) ELSE e

\* mutation of Text.__init__: a second mode is not refused
Text_init_any_modes(equals, contains, startswith, endswith, ignore_case) ==
    IF ModesGiven(equals, contains, startswith, endswith) = 0
    THEN [raised |-> "ValueError"]
    ELSE [raised |-> None, equals |-> as_list(equals), contains |-> as_list(contains),
          endswith |-> as_list(endswith), startswith |-> as_list(startswith),
          ignore_case |-> ignore_case]

\* builtin.py:219-254  Text.__init__: ValueError unless exactly one mode is
\* given, otherwise the filter
Text_init(equals, contains, startswith, endswith, ignore_case) ==
    LET check == ModesGiven(equals, contains, startswith, endswith)
    IN  IF check > 1 THEN [raised |-> "ValueError"]
        ELSE IF check = 0 THEN [raised |-> "ValueError"]
        ELSE [raised |-> None, equals |-> as_list(equals), contains |-> as_list(contains),
              endswith |-> as_list(endswith), startswith |-> as_list(startswith),
              ignore_case |-> ignore_case]

\* mutation of Text.check: contains accepts when any substring occurs
Text_check_contains_any(filter, event, obj_text) ==
    IF ~IsMessageEvent(event) THEN FALSE
    ELSE IF filter.equals # PyNone THEN list_contains(filter.equals.v, obj_text)
    ELSE IF filter.contains # PyNone
    THEN \E k \in 1..Len(filter.contains.v) : str_contains(obj_text, filter.contains.v[k])
    ELSE IF filter.startswith # PyNone
    THEN \E k \in 1..Len(filter.startswith.v) : str_startswith(obj_text, filter.startswith.v[k])
    ELSE IF filter.endswith # PyNone
    THEN \E k \in 1..Len(filter.endswith.v) : str_endswith(obj_text, filter.endswith.v[k])
    ELSE FALSE

\* builtin.py:262-290  Text.check
Text_check(filter, event, obj_text) ==
    IF ~IsMessageEvent(event) THEN FALSE
    ELSE LET text == IF filter.ignore_case THEN str_lower(obj_text) ELSE obj_text
             pre(l) == IF filter.ignore_case THEN map_lower(l) ELSE l
         IN  IF filter.equals # PyNone
             THEN list_contains(pre(filter.equals.v), text)
             ELSE IF filter.contains # PyNone
             THEN \A k \in 1..Len(filter.contains.v) :
                      str_contains(text, pre(filter.contains.v)[k])
             ELSE IF filter.startswith # PyNone
             THEN \E k \in 1..Len(filter.startswith.v) :
                      str_startswith(text, pre(filter.startswith.v)[k])
             ELSE IF filter.endswith # PyNone
             THEN \E k \in 1..Len(filter.endswith.v) :
                      str_endswith(text, pre(filter.endswith.v)[k])
             ELSE FALSE

\* the patterns a Text mode is configured with: nothing, a single str, a list
Patterns == {<<"a">>, <<"b">>, <<"a", "b">>, <<"A">>}
PatternConfigs ==
    {PyNone} \cup {PyStr(p) : p \in Patterns}
             \cup {PyList(<<p, q>>) : p, q \in {<<"a">>, <<"b">>}}
             \cup {PyList(<< >>)}
\* the texts checked: every text of up to MaxTextLen of these characters, and
\* the texts "xaybz" and "xayz"
TextChars == {"a", "b", "x", "A"}
XAYBZ == <<"x", "a", "y", "b", "z">>
XAYZ == <<"x", "a", "y", "z">>
CheckedTexts == StrUpTo(TextChars, MaxTextLen) \cup {XAYBZ, XAYZ}

\* Text(...) is called with some of its modes
Text_init_call ==
    /\ last_call = NoCall
    /\ \E equals, contains, startswith, endswith \in {PyNone, PyStr(<<"a">>), PyList(<<<<"a">>, <<"b">>>>)},
          ignore_case \in BOOLEAN :
            last_call' = [fn |-> "Text.__init__", equals |-> equals, contains |-> contains,
                     startswith |-> startswith, endswith |-> endswith,
                     result |-> Text_init(equals, contains, startswith, endswith, ignore_case)]
    /\ UNCHANGED <<dispatch, dp_run_tasks_by_default, close_waiter, waiters>>

\* a Text filter with one mode is built and checked against a message text
Text_check_call ==
    /\ last_call = NoCall
    /\ \E mode \in {"equals", "contains", "startswith", "endswith"},
          patterns \in PatternConfigs \ {PyNone}, ignore_case \in BOOLEAN,
          text \in CheckedTexts :
            LET given(m) == IF m = mode THEN patterns ELSE PyNone
                filter == Text_init(given("equals"), given("contains"),
                                    given("startswith"), given("endswith"), ignore_case)
            IN  last_call' = [fn |-> "Text.check", mode |-> mode, patterns |-> patterns,
                         ignore_case |-> ignore_case, text |-> text,
                         result |-> Text_check(filter, E1, text)]
    /\ UNCHANGED <<dispatch, dp_run_tasks_by_default, close_waiter, waiters>>

(***************************************************************************)
(* IDFilter                                                                *)
(***************************************************************************)
Digit(c) ==
    CASE c = "0" -> 0 [] c = "1" -> 1 [] c = "2" -> 2 [] c = "3" -> 3 [] c = "4" -> 4
      [] c = "5" -> 5 [] c = "6" -> 6 [] c = "7" -> 7 [] c = "8" -> 8 [] c = "9" -> 9

\* int(x) for an int or a str of decimal digits
RECURSIVE int_of_str(_)
int_of_str(s) ==
    IF s = << >> THEN 0
    ELSE 10 * int_of_str(SubSeq(s, 1, Len(s) - 1)) + Digit(s[Len(s)])
int(x) == IF x.t = "int" THEN x ELSE PyInt(int_of_str(x.v))

\* bool(x) of a configured id value: None, 0, '' and [] are false
Bool(x) ==
    CASE x.t = "NoneType" -> FALSE
      [] x.t = "int" -> x.v # 0
      [] OTHER -> x.v # << >>

\* a == b in Python: an int and a str are never equal
py_eq(a, b) == a.t = b.t /\ a.v = b.v

\* x in l
py_in(x, l) == \E k \in 1..Len(l) : py_eq(x, l[k])

\* builtin.py:404-408 and 409-413: the list kept for one of the two
\* arguments.  A str is an Iterable, so it is converted character by
\* character; a value that is false leaves None.
id_list(id) ==
    IF ~Bool(id) THEN PyNone
    ELSE IF id.t = "list" THEN PyList([k \in 1..Len(id.v) |-> int(id.v[k])])
    ELSE IF id.t = "str" THEN PyList([k \in 1..Len(id.v) |-> int(PyStr(<<id.v[k]>>))])
    ELSE PyList(<<int(id)>>)

\* builtin.py:391-413  IDFilter.__init__
IDFilter_init(user_id, chat_id) ==
    IF user_id.t = "NoneType" /\ chat_id.t = "NoneType" THEN [raised |-> "ValueError"]
    ELSE [raised |-> None, user_id |-> id_list(user_id), chat_id |-> id_list(chat_id)]

\* builtin.py:426-440  IDFilter.check; a kept list is never empty
IDFilter_check(filter, event) ==
    IF event.type \notin {"Event", "MessageEvent"} THEN FALSE
    ELSE LET user_id == event.sender
             chat_id == event.recipient
         IN  IF filter.user_id # PyNone /\ filter.chat_id # PyNone
             THEN py_in(user_id, filter.user_id.v) /\ py_in(chat_id, filter.chat_id.v)
             ELSE IF filter.user_id # PyNone THEN py_in(user_id, filter.user_id.v)
             ELSE IF filter.chat_id # PyNone THEN py_in(chat_id, filter.chat_id.v)
             ELSE FALSE

\* types/event.py:8-13  Sender.id and Recipient.id are str; the ids the
\* transport delivers are strings of digits
TransportIds == {PyStr(<<"1">>), PyStr(<<"2">>), PyStr(<<"1", "2">>)}
IdEvents == [type : {"MessageEvent"}, sender : TransportIds, recipient : TransportIds]
\* the values user_id= and chat_id= are configured with: nothing, one id
\* as a str or as an int, a list of ids
IdConfigs ==
    {PyNone, PyStr(<<"1">>), PyStr(<<"1", "2">>), PyInt(1), PyInt(12),
     PyList(<<PyStr(<<"1">>), PyStr(<<"1", "2">>)>>), PyList(<<PyInt(1), PyInt(2)>>),
     PyList(<<PyStr(<<"2">>)>>)}

\* an IDFilter is built and checked against an event
IDFilter_check_call ==
    /\ last_call = NoCall
    /\ \E user_id, chat_id \in IdConfigs, event \in IdEvents :
            LET filter == IDFilter_init(user_id, chat_id)
            IN  last_call' = [fn |-> "IDFilter.check", user_id |-> user_id, chat_id |-> chat_id,
                         event |-> event,
                         result |-> IF filter.raised # None THEN [raised |-> filter.raised, accept |-> FALSE]
                                    ELSE [raised |-> None, accept |-> IDFilter_check(filter, event)]]
    /\ UNCHANGED <<dispatch, dp_run_tasks_by_default, close_waiter, waiters>>

(***************************************************************************)
(* Webhook subscription handshake                                          *)
(***************************************************************************)
\* fb.py:26-30  the confirmation code of an FB built without one
confirmation_code_default == None

\* webhook.py:144-151  validate_ip: raises HTTPUnauthorized when the
\* application checks addresses and the client's is not accepted
validate_ip(app_check_ip, accept) == IF app_check_ip /\ ~accept THEN "HTTPUnauthorized" ELSE None

\* webhook.py:107-118  WebhookRequestHandler.get.  query.get yields None for a
\* parameter the request does not have.
get(app_check_ip, accept, query, confirmation_code) ==
    IF validate_ip(app_check_ip, accept) # None THEN [status |-> 401, text |-> None]
    ELSE LET mode == query.mode
             token == query.token
             challenge == query.challenge
         IN  IF mode = "subscribe" /\ token = confirmation_code
             THEN [status |-> 200, text |-> challenge]
             ELSE [status |-> 403, text |-> None]

\* the query strings of the requests, None for a missing parameter
Queries == [mode : {None, "subscribe", "unsubscribe"},
            token : {None, "secret", "guess"},
            challenge : {None, "c1", "c2"}]
ConfirmationCodes == {confirmation_code_default, "secret"}

\* a GET request reaches the webhook of a dispatcher whose FB was built with
\* or without a confirmation code
get_call ==
    /\ last_call = NoCall
    /\ \E app_check_ip, accept \in BOOLEAN, query \in Queries, code \in ConfirmationCodes :
            last_call' = [fn |-> "get", query |-> query, confirmation_code |-> code,
                     checked |-> validate_ip(app_check_ip, accept),
                     result |-> get(app_check_ip, accept, query, code)]
    /\ UNCHANGED <<dispatch, dp_run_tasks_by_default, close_waiter, waiters>>

(***************************************************************************)
(* current_state                                                           *)
(***************************************************************************)
\* FSMContext(storage, chat, user): the handle keeps its three arguments
FSMContext(store, chat, user) == [storage |-> store, chat |-> chat, user |-> user]

\* mutation of current_state: the ambient values win over the arguments
current_state_ambient_first(chat, user, ctx) ==
    [handle |-> FSMContext("self.storage",
                           IF ctx.recipient # None THEN ctx.recipient ELSE chat,
                           IF ctx.sender # None THEN ctx.sender ELSE user),
     storage_calls |-> << >>]

\* dispatcher.py:170-195  Dispatcher.current_state in the context ctx, whose
\* recipient and sender fields hold the ids of the current Recipient and
\* Sender, None when there is none.  The result carries the handle and the
\* calls made on the storage.
current_state(chat, user, ctx) ==
    LET chat_obj == ctx.recipient
        user_obj == ctx.sender
        chat_used == IF chat = None THEN (IF chat_obj # None THEN chat_obj ELSE None) ELSE chat
        user_used == IF user = None THEN (IF user_obj # None THEN user_obj ELSE None) ELSE user
    IN  [handle |-> FSMContext("self.storage", chat_used, user_used),
         storage_calls |-> << >>]

\* the contexts current_state is called in: outside any dispatch, and inside
\* the dispatch of an event
StateContexts == {RootContext} \cup {set_current(RootContext, e) : e \in Events}

\* current_state is called with or without explicit arguments
current_state_call ==
    /\ last_call = NoCall
    /\ \E chat \in {None, "", "p9"}, user \in {None, "", "u9"}, ctx \in StateContexts :
            last_call' = [fn |-> "current_state", chat |-> chat, user |-> user, ctx |-> ctx,
                     result |-> current_state(chat, user, ctx)]
    /\ UNCHANGED <<dispatch, dp_run_tasks_by_default, close_waiter, waiters>>

(***************************************************************************)
(* Keywords of a registration                                              *)
(***************************************************************************)
\* builtin.py:210-217  Text._default_params, the keywords in lookup order
Text_default_params == <<"text", "text_contains", "text_startswith", "text_endswith">>

\* the validate classmethod of a bound type: the keywords it pops from
\* full_config, the set of the keywords still there
\*   builtin.py:54-75 Command, 256-260 Text (returns at the first it finds),
\*   303-306 Regexp, 415-424 IDFilter; StateFilter, ExceptionsFilter and
\*   IsReplyFilter pop their key
validate(filter, full_config) ==
    CASE filter = "StateFilter" -> {"state"} \cap full_config
      [] filter = "Command" ->
            IF "commands" \in full_config
            THEN {"commands", "commands_prefix", "commands_ignore_mention"} \cap full_config
            ELSE {}
      [] filter = "Text" ->
            LET found == {k \in 1..Len(Text_default_params) : Text_default_params[k] \in full_config}
            IN  IF found = {} THEN {}
                ELSE {Text_default_params[CHOOSE k \in found : \A m \in found : k <= m]}
      [] filter = "Regexp" -> {"regexp"} \cap full_config
      [] filter = "ExceptionsFilter" -> {"exception"} \cap full_config
      [] filter = "IDFilter" -> {"user_id", "chat_id"} \cap full_config
      [] filter = "IsReplyFilter" -> {"is_reply"} \cap full_config

\* FiltersFactory.resolve over the bind table from record k on: every
\* eligible type is offered the keywords left, and keywords left at the end
\* raise NameError
RECURSIVE resolve_registered(_, _, _, _)
resolve_registered(chain, k, full_config, built) ==
    IF k > Len(setup_filters)
    THEN [raised |-> IF full_config = {} THEN None ELSE "NameError",
          filters |-> built, leftover |-> full_config]
    ELSE LET record == setup_filters[k]
             claimed == IF Eligible(record, chain) THEN validate(record.filter, full_config) ELSE {}
             made == claimed # {} \/ (record.filter = "StateFilter" /\ Eligible(record, chain)
                                        /\ StateFilter_required)
         IN  resolve_registered(chain, k + 1, full_config \ claimed,
                                IF made THEN Append(built, record.filter) ELSE built)

\* dispatcher.py:107-115  the keywords register_message_handler hands to
\* resolve: commands, regexp, content_types, state and **kwargs; func,
\* custom_filters and run_task are parameters of its own
forwarded(given) == given \ {"func", "custom_filters", "run_task"}

\* dispatcher.py:107-116  register_message_handler called with the keywords
\* given (those whose value is not None)
register_message_handler_keywords(given) ==
    LET resolved == resolve_registered("message_handlers", 1, forwarded(given), << >>)
    IN  [raised |-> resolved.raised, filters |-> resolved.filters,
         registered |-> resolved.raised = None]

\* the keywords of the registrations
Keywords == {"commands", "commands_prefix", "regexp", "content_types", "func", "state",
             "text", "text_contains", "user_id", "is_reply", "exception", "foo"}

\* a handler is registered with some keywords
register_keywords_call ==
    /\ last_call = NoCall
    /\ \E given \in SUBSET Keywords :
            last_call' = [fn |-> "register_message_handler", given |-> given,
                     result |-> register_message_handler_keywords(given)]
    /\ UNCHANGED <<dispatch, dp_run_tasks_by_default, close_waiter, waiters>>

(***************************************************************************)
(* Run mode default and shutdown                                           *)
(***************************************************************************)
\* the integrator assigns Dispatcher.run_tasks_by_default (dispatcher.py:37)
set_run_tasks_by_default(b) ==
    /\ pe.state = "idle"
    /\ dp_run_tasks_by_default' = b
    /\ UNCHANGED <<dispatch, close_waiter, waiters, last_call>>

\* dispatcher.py:48  loop.create_future(): a future that is not done
create_future == "pending"

\* the tasks that call wait_closed
Callers == {"c1", "c2"}

\* dispatcher.py:130-136  wait_closed: the caller goes on when the future is
\* done and is suspended on it otherwise; a suspended caller is resumed by
\* whoever sets the future's result
wait_closed(c) ==
    /\ waiters[c] = "idle"
    /\ waiters' = [waiters EXCEPT ![c] = IF close_waiter = "done" THEN "released"
                                          ELSE "suspended"]
    /\ UNCHANGED <<dispatch, dp_run_tasks_by_default, close_waiter, last_call>>

(***************************************************************************)
(* Checks of one StateFilter and resolutions of one filter set             *)
(***************************************************************************)
\* a StateFilter built from state= is checked against an event, in the
\* context of that event's dispatch before or after the state was cached
StateFilter_check_call ==
    /\ last_call = NoCall
    /\ \E state \in StateArgs, event \in Events, cached \in {Unset} \cup StateNames,
          store \in Storages :
            LET filter == StateFilter_init(state)
                ctx == [set_current(RootContext, event) EXCEPT !.user_state = cached]
            IN  last_call' = [fn |-> "StateFilter.check", state |-> state, event |-> event,
                              cached |-> cached, store |-> store,
                              result |-> StateFilter_check(filter.states, ctx, event, store)]
    /\ UNCHANGED <<dispatch, dp_run_tasks_by_default, close_waiter, waiters>>

\* the chains of the dispatcher (dispatcher.py:40-42)
Chains == {"events_handler", "message_handlers", "errors_handlers"}

\* the factory resolves the keywords given for one of the chains
resolve_call ==
    /\ last_call = NoCall
    /\ \E chain \in Chains, given \in SUBSET Keywords :
            last_call' = [fn |-> "resolve", chain |-> chain, given |-> given,
                          result |-> resolve_registered(chain, 1, given, << >>)]
    /\ UNCHANGED <<dispatch, dp_run_tasks_by_default, close_waiter, waiters>>

(***************************************************************************)
(* Direct calls of process_event                                           *)
(***************************************************************************)
\* the context a caller of process_event is in: the root context before its
\* first call, and afterwards the context its last call left, since the
\* coroutine it awaits runs in the caller's own context
caller_context ==
    IF tasks = << >> THEN RootContext ELSE tasks[Len(tasks)].ctx

\* dispatcher.py:95-105  await dp.process_event(event), called by a task that
\* has awaited its earlier calls; the dispatch is recorded like an event task
\* (entry 0: it belongs to no batch) but runs in the caller's context
direct_process_event(event) ==
    /\ pe.state = "idle"
    /\ Len(tasks) < MaxDirectCalls
    /\ \A n \in 1..Len(tasks) : tasks[n].pc \in {"done", "failed"}
    /\ tasks' = Append(tasks, [NewTask(0, event) EXCEPT !.ctx = caller_context])
    /\ UNCHANGED <<aux, events_handler, message_handlers, errors_handlers, reg_result,
                   storage, entries, pe>>

(***************************************************************************)
(* Specification                                                           *)
(***************************************************************************)
Init ==
    /\ events_handler = <<"process_event">>
    /\ message_handlers = << >>
    /\ errors_handlers = << >>
    /\ reg_result = None
    /\ storage \in Storages
    /\ entries = << >>
    /\ pe = [state |-> "idle", exc |-> None]
    /\ tasks = << >>
    /\ dp_run_tasks_by_default = run_tasks_by_default
    /\ close_waiter = create_future
    /\ waiters = [c \in Callers |-> "idle"]
    /\ last_call = NoCall

\* one event at a time, against every chain
Next ==
    \/ \E cf \in {None, "tuple"}, s \in StateArgs, rt \in {"True", "False"} :
            register_message_handler(cf, s, rt)
    \/ \E s \in StateArgs, rt \in {"True", "False"} : message_handler(s, rt)
    \/ errors_handlers_register
    \/ \E batch \in SingleBatches : process_entries(batch)
    \/ process_entries_return
    \/ \E n \in 1..Len(tasks) : process_event(n)
    \/ \E n \in 1..Len(tasks), custom \in FilterOutcomes : notify(n, custom)
    \/ \E n \in 1..Len(tasks) : handler_return(n)
    \/ \E n \in 1..Len(tasks), e \in HandlerExceptions : handler_raise(n, e)
    \/ \E n \in 1..Len(tasks) : detached_return(n)
    \/ \E n \in 1..Len(tasks), e \in HandlerExceptions : detached_raise(n, e)
    \/ \E n \in 1..Len(tasks) : process_response(n)
    \/ \E n \in 1..Len(tasks), custom \in {"accept", "reject"}, outcome \in {"return", "raise"} :
            errors_notify(n, custom, outcome)

Spec == Init /\ [][Next]_vars

\* batches of several events dispatched concurrently, against short chains
NextBatch ==
    \/ \E s \in StateArgs, rt \in RunTaskArgs :
            Len(message_handlers) < MaxBatchHandlers /\ message_handler(s, rt)
    \/ \E batch \in Batches : process_entries(batch)
    \/ process_entries_return
    \/ \E n \in 1..Len(tasks) : process_event(n)
    \/ \E n \in 1..Len(tasks), custom \in FilterOutcomes : notify(n, custom)
    \/ \E n \in 1..Len(tasks) : handler_return(n)
    \/ \E n \in 1..Len(tasks), e \in HandlerExceptions : handler_raise(n, e)
    \/ \E n \in 1..Len(tasks) : detached_return(n)
    \/ \E n \in 1..Len(tasks), e \in HandlerExceptions : detached_raise(n, e)
    \/ \E n \in 1..Len(tasks) : process_response(n)

SpecBatch == Init /\ [][NextBatch]_vars

\* the filters, the handshake and the registration keywords on their inputs
NextFilters ==
    \/ Command_check_call
    \/ Text_init_call
    \/ Text_check_call
    \/ IDFilter_check_call
    \/ get_call
    \/ current_state_call
    \/ register_keywords_call
    \/ StateFilter_check_call
    \/ resolve_call

SpecFilters == Init /\ [][NextFilters]_vars

\* one caller dispatches events itself, one call after the other
NextDirect ==
    \/ \E s \in StateArgs, rt \in RunTaskArgs :
            Len(message_handlers) < MaxBatchHandlers /\ message_handler(s, rt)
    \/ \E event \in Events : direct_process_event(event)
    \/ \E n \in 1..Len(tasks) : process_event(n)
    \/ \E n \in 1..Len(tasks), custom \in FilterOutcomes : notify(n, custom)
    \/ \E n \in 1..Len(tasks) : handler_return(n)
    \/ \E n \in 1..Len(tasks), e \in HandlerExceptions : handler_raise(n, e)
    \/ \E n \in 1..Len(tasks) : detached_return(n)
    \/ \E n \in 1..Len(tasks), e \in HandlerExceptions : detached_raise(n, e)
    \/ \E n \in 1..Len(tasks) : process_response(n)

SpecDirect == Init /\ [][NextDirect]_vars

\* one dispatcher over its life: the default run mode is assigned, handlers
\* are registered, events are dispatched, tasks wait for the shutdown
NextLife ==
    \/ \E b \in BOOLEAN : set_run_tasks_by_default(b)
    \/ \E s \in StateArgs, rt \in RunTaskArgs :
            Len(message_handlers) < MaxBatchHandlers /\ message_handler(s, rt)
    \/ process_entries(<<[messaging |-> <<E1>>]>>)
    \/ process_entries_return
    \/ \E n \in 1..Len(tasks) : process_event(n)
    \/ \E n \in 1..Len(tasks), custom \in {"accept", "reject"} : notify(n, custom)
    \/ \E n \in 1..Len(tasks) : handler_return(n)
    \/ \E n \in 1..Len(tasks), e \in HandlerExceptions : handler_raise(n, e)
    \/ \E n \in 1..Len(tasks) : detached_return(n)
    \/ \E n \in 1..Len(tasks), e \in HandlerExceptions : detached_raise(n, e)
    \/ \E n \in 1..Len(tasks) : process_response(n)
    \/ \E c \in Callers : wait_closed(c)

SpecLife == Init /\ [][NextLife]_vars

\* the event loop keeps running what is ready to run
SpecLifeFair == SpecLife /\ WF_vars(NextLife)

(***************************************************************************)
(* Properties                                                              *)
(***************************************************************************)
Conv(event) == <<event.recipient, event.sender>>
TaskIds == 1..Len(tasks)

\* C1: one notify of the message chain (once=True) evaluates the entries in
\* registration order, invokes at most one callback, the one of the first
\* entry whose filters all accept, and evaluates no entry after it.
C1_FirstMatchOnly ==
    \A n \in TaskIds :
        LET t == tasks[n]
        IN  /\ \A k \in 1..Len(t.evaluated) : t.evaluated[k].idx = k
            /\ Len(t.invoked) <= 1
            /\ \A k \in 1..Len(t.evaluated) :
                  t.evaluated[k].result = "accept" =>
                      /\ t.invoked = <<k>>
                      /\ k = Len(t.evaluated)
            /\ \A j \in 1..Len(t.invoked) :
                  /\ t.invoked[j] <= Len(t.evaluated)
                  /\ t.evaluated[t.invoked[j]].result = "accept"

\* h1 rejected, h2 accepted and invoked, h3 registered and never evaluated
C1_Witness ==
    \E n \in TaskIds :
        /\ Len(message_handlers) = 3
        /\ tasks[n].pc = "done"
        /\ Len(tasks[n].evaluated) = 2
        /\ tasks[n].evaluated[1].result = "reject"
        /\ tasks[n].evaluated[2].result = "accept"
        /\ tasks[n].invoked = <<2>>

\* C2: when a detached handler matched for event ev raises e, the error chain
\* is notified with (dispatcher, ev, e): the notification carries ev itself
\* and the exception raised.
C2_ErrorNotificationCarriesEvent ==
    \A n \in TaskIds :
        \A k \in 1..Len(tasks[n].notified) :
            /\ tasks[n].notified[k].event = tasks[n].event
            /\ tasks[n].notified[k].exception = tasks[n].dexc

\* the entry a task invoked was registered to run inline (run_task=False)
RegisteredInline(t) ==
    \E j \in 1..Len(t.invoked) : message_handlers[t.invoked[j]].run_task = "False"

\* C3: process_entries does not wait for detached handlers.  The dispatch of
\* an event has returned as soon as its detached handler is spawned;
\* process_entries can return while such a handler is pending; and when
\* process_entries fails with a handler's exception, an inline handler
\* raised it: a batch whose matched handlers are all detached (and whose
\* entries and filters raise nothing) does not fail.
C3_DetachedNotAwaited ==
    /\ \A n \in TaskIds : tasks[n].dpc # "none" => tasks[n].pc = "done"
    /\ (pe.state = "gather" /\ \A n \in TaskIds : tasks[n].pc = "done")
            => ENABLED process_entries_return
    /\ pe.exc \in HandlerExceptions =>
            \E n \in TaskIds : /\ tasks[n].pc = "failed"
                               /\ tasks[n].exc = pe.exc
                               /\ RegisteredInline(tasks[n])
    /\ ( /\ \A n \in TaskIds : ~RegisteredInline(tasks[n])
         /\ \A n \in TaskIds : \A k \in 1..Len(tasks[n].evaluated) :
                tasks[n].evaluated[k].result # "raise"
         /\ pe.exc # "IndexError" )
            => pe.state # "raised" /\ pe.exc = None

\* process_entries has returned while one detached handler is still pending
\* and another has raised
C3_Witness ==
    /\ pe.state = "returned"
    /\ \E n, m \in TaskIds : tasks[n].dpc = "pending" /\ tasks[m].dpc = "raised"

\* C4: a handler registered inline runs inside notify; when it raises e the
\* event's dispatch ends with e and process_entries does not return: gather
\* holds the exception of the first dispatch that failed (e when this is the
\* only failure) and process_entries raises it.
C4_InlineExceptionFailsBatch ==
    \A n \in TaskIds :
        LET t == tasks[n]
            failed == {m \in TaskIds : tasks[m].pc = "failed"}
        IN  RegisteredInline(t) =>
              /\ t.dpc = "none" /\ t.dexc = None
              /\ t.pc = "failed" =>
                    /\ t.exc \in HandlerExceptions
                    /\ pe.state \in {"gather", "raised"}
                    /\ \E m \in failed : tasks[m].exc = pe.exc
                    /\ failed = {n} => pe.exc = t.exc
                    /\ pe.state = "gather" => ENABLED process_entries_return

\* an inline handler raised, process_entries failed with its exception, and
\* the batch held a second event
C4_Witness ==
    \E n \in TaskIds :
        /\ Len(tasks) = 2
        /\ RegisteredInline(tasks[n])
        /\ tasks[n].pc = "failed"
        /\ pe.state = "raised"
        /\ pe.exc = tasks[n].exc

\* C5: while the filters of event ev are evaluated and while its handler
\* runs, inline or as a detached task, the current sender and the current
\* recipient of that task are those of ev, whatever the other dispatches of
\* the batch are doing.
C5_ContextPerEvent ==
    \A n \in TaskIds :
        LET t == tasks[n]
        IN  /\ t.pc \in {"notify", "handler"} =>
                  /\ t.ctx.sender = t.event.sender
                  /\ t.ctx.recipient = t.event.recipient
            /\ t.dpc = "pending" =>
                  /\ t.dctx.sender = t.event.sender
                  /\ t.dctx.recipient = t.event.recipient

\* two different events in flight: one has its filters evaluated while the
\* detached handler of the other is running
C5_Witness ==
    \E n, m \in TaskIds :
        /\ tasks[n].event # tasks[m].event
        /\ tasks[n].pc = "notify"
        /\ tasks[m].dpc = "pending"

\* C6: every dispatch comes from the first messaging slot of its own entry,
\* which holds a message event; no entry has two dispatches.
C6_FirstSlotOnly ==
    /\ \A n \in TaskIds :
          /\ tasks[n].entry \in 1..Len(entries)
          /\ Len(entries[tasks[n].entry].messaging) >= 1
          /\ IsMessageEvent(entries[tasks[n].entry].messaging[1])
          /\ tasks[n].event = entries[tasks[n].entry].messaging[1]
    /\ \A n, m \in TaskIds : tasks[n].entry = tasks[m].entry => n = m

\* an entry whose first slot is absent and whose second slot holds a message
\* event got no dispatch, while the other entry's handler was invoked
C6_Witness ==
    \E k \in 1..Len(entries) :
        /\ entries[k].messaging = <<NoneSlot, E1>>
        /\ \A n \in TaskIds : tasks[n].entry # k
        /\ \E n \in TaskIds : tasks[n].invoked # << >>

\* C7: a notification of the error chain (once=False) evaluates every entry in
\* order and invokes each entry whose filters accept exactly once, whatever
\* the entries before it did; a completed notification has gone through the
\* whole chain.
C7_ErrorChainNotifiesAll ==
    \A n \in TaskIds :
        LET t == tasks[n]
        IN  /\ \A k \in 1..Len(t.eevaluated) : t.eevaluated[k].idx = k
            /\ \A k \in 1..Len(errors_handlers) :
                  Cardinality({j \in 1..Len(t.einvoked) : t.einvoked[j] = k}) =
                      IF k <= Len(t.eevaluated) /\ t.eevaluated[k].result = "accept"
                      THEN 1 ELSE 0
            /\ t.epc = "done" =>
                  /\ Len(t.notified) = 1
                  /\ Len(t.eevaluated) = Len(errors_handlers)

\* both error handlers accepted and both were invoked
C7_Witness ==
    \E n \in TaskIds :
        /\ Len(errors_handlers) = 2
        /\ tasks[n].epc = "done"
        /\ tasks[n].einvoked = <<1, 2>>

\* C8: a StateFilter with target states T accepts an event iff '*' is in T or
\* the state stored for the event's (chat, user) is in T, None standing for
\* no stored state.
C8_StateFilterAccepts ==
    \A n \in TaskIds :
        \A k \in 1..Len(tasks[n].evaluated) :
            LET h == message_handlers[tasks[n].evaluated[k].idx]
                stored == storage[Conv(tasks[n].event)]
            IN  /\ h.filters # << >>
                /\ tasks[n].evaluated[k].bound <=>
                      ("*" \in h.filters[1].states \/ stored \in h.filters[1].states)

\* a conversation with stored state "s1": rejected by state=None, accepted by '*'
C8_Witness ==
    \E n \in TaskIds :
        /\ storage[Conv(tasks[n].event)] = "s1"
        /\ Len(tasks[n].evaluated) = 2
        /\ message_handlers[1].filters[1].states = {None}
        /\ ~tasks[n].evaluated[1].bound
        /\ message_handlers[2].filters[1].states = {"*"}
        /\ tasks[n].evaluated[2].bound

\* C9: the dispatch of one event calls storage.get_state at most once.
C9_OneStorageRead ==
    \A n \in TaskIds : tasks[n].reads <= 1

\* three StateFilters that are not wildcards were checked with one read
C9_Witness ==
    \E n \in TaskIds :
        /\ Len(tasks[n].evaluated) = 3
        /\ \A k \in 1..3 : "*" \notin message_handlers[k].filters[1].states
        /\ tasks[n].reads = 1

\* C10: a handler registered without state= (state None) is invoked only for
\* an event whose conversation has no stored state.
C10_DefaultStateOnlyStateless ==
    \A n \in TaskIds :
        \A j \in 1..Len(tasks[n].invoked) :
            message_handlers[tasks[n].invoked[j]].state = None
                => storage[Conv(tasks[n].event)] = None

\* a conversation with stored state "s1": the handler registered without
\* state= was passed over, the one registered with '*' was invoked
C10_Witness ==
    \E n \in TaskIds :
        /\ storage[Conv(tasks[n].event)] = "s1"
        /\ Len(message_handlers) >= 2
        /\ Len(tasks[n].evaluated) >= 1
        /\ message_handlers[1].state = None
        /\ message_handlers[2].state = "*"
        /\ tasks[n].evaluated[1].result = "reject"
        /\ tasks[n].invoked = <<2>>

\* the first whitespace-delimited token of a text that has one
FirstToken(text) == str_split(text)[1]
\* the names and the characters a Command filter was configured with
Configured(commands) ==
    IF commands.t = "str" THEN {commands.v} ELSE {commands.v[k] : k \in 1..Len(commands.v)}
CharsOf(prefixes) == {prefixes[k] : k \in 1..Len(prefixes)}

\* C11: a case-insensitive Command filter with prefixes P and commands C
\* accepts a text whose first token is p followed by cmd (no mention) iff p is
\* in P and the lower-cased cmd is in C, C being the command set the filter
\* holds: the configured names, case-folded when the filter is built.
C11_CommandAccepts ==
    ( /\ last_call.fn = "Command.check"
      /\ last_call.ignore_case
      /\ str_split(last_call.text) # << >> ) =>
        LET token == FirstToken(last_call.text)
            p == token[1]
            cmd == SubSeq(token, 2, Len(token))
            C == {str_lower(c) : c \in Configured(last_call.commands)}
        IN  last_call.result.accept <=>
                (p \in CharsOf(last_call.prefixes) /\ str_lower(cmd) \in C)

\* "/A b" is accepted by the filter of the command 'a' with the prefixes '!/'
C11_Witness ==
    /\ last_call.fn = "Command.check"
    /\ last_call.ignore_case
    /\ last_call.commands = PyList(<< <<"a">> >>)
    /\ last_call.prefixes = <<"!", "/">>
    /\ last_call.text = <<"/", "A", " ", "b">>
    /\ last_call.result.accept

\* the text after the first token, without the whitespace before it
RECURSIVE str_lstrip(_)
str_lstrip(s) == IF s # << >> /\ IsSpace(Head(s)) THEN str_lstrip(Tail(s)) ELSE s
TrailingArgs(text) ==
    LET body == str_lstrip(text)
    IN  str_lstrip(SubSeq(body, Len(FirstToken(text)) + 1, Len(body)))

\* C12: the command object a case-insensitive Command filter yields carries
\* the case-folded command name and, when text follows the command, that
\* trailing text as args: "/START hello" yields command 'start', args 'hello'.
C12_CommandObjFoldedWithArgs ==
    ( /\ last_call.fn = "Command.check"
      /\ last_call.ignore_case
      /\ last_call.result.accept ) =>
        LET token == FirstToken(last_call.text)
            cmd == SubSeq(token, 2, Len(token))
            obj == last_call.result.command
        IN  /\ "command" \in last_call.result.keys
            /\ obj.command = str_lower(cmd)
            /\ Len(str_split(last_call.text)) > 1 =>
                    obj.args = PyStr(TrailingArgs(last_call.text))

\* the ids a user_id= or chat_id= value lists
Listed(id) == IF id.t = "list" THEN {id.v[k] : k \in 1..Len(id.v)} ELSE {id}
Member(x, id) == \E y \in Listed(id) : py_eq(x, y)

\* C13: an IDFilter configured with the sender ids U and/or the recipient ids
\* R accepts an event iff its sender id is in U (when U is configured) and its
\* recipient id is in R (when R is configured), the ids being those the
\* transport delivers.
C13_IDFilterMembership ==
    (last_call.fn = "IDFilter.check" /\ last_call.result.raised = None) =>
        ( last_call.result.accept <=>
            /\ last_call.user_id.t # "NoneType" => Member(last_call.event.sender, last_call.user_id)
            /\ last_call.chat_id.t # "NoneType" => Member(last_call.event.recipient, last_call.chat_id) )

\* the modes a call of Text(...) sets
ModesSet ==
    {m \in {"equals", "contains", "startswith", "endswith"} : last_call[m].t # "NoneType"}

\* C14: Text(...) builds a filter iff exactly one of equals, contains,
\* startswith, endswith is set; with none and with two or more it raises
\* ValueError and there is no filter.
C14_TextOneMode ==
    last_call.fn = "Text.__init__" =>
        /\ last_call.result.raised = None <=> Cardinality(ModesSet) = 1
        /\ last_call.result.raised # None =>
              /\ last_call.result.raised = "ValueError"
              /\ DOMAIN last_call.result = {"raised"}
        /\ last_call.result.raised = None =>
              \A m \in ModesSet : last_call.result[m].t = "list"

\* equals= and endswith= were both given and the construction raised
C14_Witness ==
    /\ last_call.fn = "Text.__init__"
    /\ ModesSet = {"equals", "endswith"}
    /\ last_call.result.raised = "ValueError"

\* the strings a Text mode was configured with, and a string as the filter
\* compares it
PatternsOf(patterns) ==
    IF patterns.t = "str" THEN {patterns.v} ELSE {patterns.v[k] : k \in 1..Len(patterns.v)}
Folded(s) == IF last_call.ignore_case THEN str_lower(s) ELSE s

\* C15: in contains mode a Text filter accepts iff all the configured strings
\* occur in the text, in startswith (endswith) mode iff one of them is a
\* prefix (suffix) of the text, in equals mode iff the text is one of them;
\* a single configured string is a list of one.  With ignore_case both sides
\* are compared lower-cased.
C15_TextModes ==
    last_call.fn = "Text.check" =>
        LET text == Folded(last_call.text)
            strings == {Folded(q) : q \in PatternsOf(last_call.patterns)}
        IN  last_call.result <=>
              CASE last_call.mode = "contains" -> \A q \in strings : str_contains(text, q)
                [] last_call.mode = "startswith" -> \E q \in strings : str_startswith(text, q)
                [] last_call.mode = "endswith" -> \E q \in strings : str_endswith(text, q)
                [] last_call.mode = "equals" -> text \in strings

\* Text(contains=['b', 'a']) accepted "xaybz"
C15_Witness ==
    /\ last_call.fn = "Text.check"
    /\ last_call.mode = "contains"
    /\ last_call.patterns = PyList(<< <<"b">>, <<"a">> >>)
    /\ ~last_call.ignore_case
    /\ last_call.text = XAYBZ
    /\ last_call.result

\* C16: current_state returns a handle on the dispatcher's storage whose chat
\* is the chat argument when one is given and the id of the current recipient
\* otherwise (None when there is none), whose user is the user argument when
\* one is given and the id of the current sender otherwise; it makes no call
\* on the storage.
C16_CurrentStateResolves ==
    last_call.fn = "current_state" =>
        LET handle == last_call.result.handle
        IN  /\ handle.storage = "self.storage"
            /\ handle.chat = IF last_call.chat # None THEN last_call.chat
                             ELSE last_call.ctx.recipient
            /\ handle.user = IF last_call.user # None THEN last_call.user
                             ELSE last_call.ctx.sender
            /\ last_call.result.storage_calls = << >>

\* inside the dispatch of E1, with user= given and chat= left out
C16_Witness ==
    /\ last_call.fn = "current_state"
    /\ last_call.ctx = set_current(RootContext, E1)
    /\ last_call.chat = None
    /\ last_call.user = "u9"
    /\ last_call.result.handle.chat = E1.recipient
    /\ last_call.result.handle.user = "u9"

\* C17: a handler registered with run_task=False runs inline and one
\* registered with run_task=True runs detached, whatever the dispatcher's
\* default is; one registered without run_task runs in the mode that was the
\* default when it was registered.
C17_RunModePerRegistration ==
    /\ \A j \in 1..Len(message_handlers) :
          LET h == message_handlers[j]
          IN  h.detached = CASE h.run_task = "False" -> FALSE
                             [] h.run_task = "True" -> TRUE
                             [] OTHER -> h.default
    /\ \A n \in TaskIds : \A j \in 1..Len(tasks[n].invoked) :
          LET h == message_handlers[tasks[n].invoked[j]]
          IN  /\ h.run_task = "False" => tasks[n].dpc = "none"
              /\ h.run_task = "True" => tasks[n].dpc # "none" /\ tasks[n].pc # "handler"
              /\ h.run_task = None =>
                    (tasks[n].dpc # "none" <=> h.default)

\* the default is inline, and a handler registered with run_task=True before
\* that runs as a detached task
C17_Witness ==
    \E n \in TaskIds :
        /\ ~dp_run_tasks_by_default
        /\ tasks[n].invoked = <<1>>
        /\ message_handlers[1].run_task = "True"
        /\ tasks[n].dpc = "pending"
        /\ tasks[n].pc = "done"

\* the keywords of the message chain's bound types
ClaimedByMessageChain ==
    {"state", "commands", "commands_prefix", "commands_ignore_mention", "regexp",
     "text", "text_contains", "text_startswith", "text_endswith",
     "user_id", "chat_id", "is_reply"}

\* C18: a registration with a keyword that no bound type of the message chain
\* claims fails with a configuration error.
C18_UnclaimedKeywordFails ==
    ( /\ last_call.fn = "register_message_handler"
      /\ last_call.given \ ClaimedByMessageChain # {} ) =>
        /\ last_call.result.raised # None
        /\ ~last_call.result.registered

\* C19: a caller of wait_closed is released only when the close signal is
\* set, and a caller that waits is released in the end.
C19_WaitClosedReleased ==
    /\ [](\A c \in Callers : waiters[c] = "released" => close_waiter = "done")
    /\ \A c \in Callers : (waiters[c] = "suspended") ~> (waiters[c] = "released")

\* C20: the handshake answers 200 with the challenge only to a request that
\* presents a token equal to the confirmation code with hub.mode=subscribe;
\* every other request that passes the address check gets 403 without the
\* challenge.
C20_ChallengeOnlyForToken ==
    (last_call.fn = "get" /\ last_call.checked = None) =>
        LET presented == /\ last_call.query.token # None
                         /\ last_call.query.token = last_call.confirmation_code
                         /\ last_call.query.mode = "subscribe"
        IN  IF presented
            THEN last_call.result = [status |-> 200, text |-> last_call.query.challenge]
            ELSE last_call.result = [status |-> 403, text |-> None]

\* C21: the state a StateFilter compares against while event ev is dispatched
\* is the state stored for ev's own (chat, user), also when one caller
\* dispatches events of different conversations one after another: a filter
\* that is not a wildcard accepts ev iff that stored state is one of its
\* states.
C21_StateOfOwnConversation ==
    \A n \in TaskIds :
        \A k \in 1..Len(tasks[n].evaluated) :
            LET h == message_handlers[tasks[n].evaluated[k].idx]
            IN  (h.filters # << >> /\ "*" \notin h.filters[1].states) =>
                    ( tasks[n].evaluated[k].bound <=>
                          storage[Conv(tasks[n].event)] \in h.filters[1].states )

\* C22: whenever a StateFilter accepts, by wildcard or by a state match, the
\* mapping it yields holds both 'state' and 'raw_state'.
C22_YieldsStateAndRawState ==
    (last_call.fn = "StateFilter.check" /\ last_call.result.accept) =>
        last_call.result.keys = {"state", "raw_state"}

\* C23: an exception raised by a filter's check while an entry is evaluated
\* is captured (the dispatch does not fail with it) when the entry's handler
\* is detached, and ends the dispatch when the handler is inline.
C23_FilterExceptionRouting ==
    \A n \in TaskIds :
        \A k \in 1..Len(tasks[n].evaluated) :
            tasks[n].evaluated[k].result = "raise" =>
                IF message_handlers[tasks[n].evaluated[k].idx].detached
                THEN tasks[n].pc # "failed" /\ pe.exc # "FilterError"
                ELSE tasks[n].pc = "failed" /\ tasks[n].exc = "FilterError"

\* C24: the exception of an error handler is terminal.  A failed detached
\* handler notifies the error chain once, whatever the error handlers do; an
\* error handler that raised leaves the dispatch and process_entries as they
\* were, and the next batch can be processed.
C24_ErrorHandlerExceptionTerminal ==
    /\ \A n \in TaskIds :
          /\ Len(tasks[n].notified) <= 1
          /\ Len(tasks[n].notified) = 1 => tasks[n].dpc = "raised" /\ tasks[n].responded
          /\ tasks[n].epc = "failed" =>
                /\ tasks[n].pc = "done"
                /\ tasks[n].exc = None
                /\ pe.exc = None
    /\ ( /\ pe.state = "returned"
         /\ \A n \in TaskIds : tasks[n].epc = "failed" ) =>
            ENABLED process_entries(<<[messaging |-> <<E1>>]>>)

\* the first of two error handlers raised: one notification, the second
\* handler was not reached, process_entries had returned
C24_Witness ==
    \E n \in TaskIds :
        /\ Len(errors_handlers) = 2
        /\ tasks[n].epc = "failed"
        /\ tasks[n].einvoked = <<1>>
        /\ Len(tasks[n].notified) = 1
        /\ pe.state = "returned"

\* the entries of the batch whose first slot holds a message event
Dispatchable == {k \in 1..Len(entries) : /\ Len(entries[k].messaging) >= 1
                                         /\ IsMessageEvent(entries[k].messaging[1])}

\* C25: an entry without messaging events raises nothing in process_entries
\* and does not keep the other entries from being dispatched: every entry
\* whose first slot holds a message event has its dispatch.
C25_EmptyEntryDropped ==
    /\ pe.exc # "IndexError"
    /\ pe.state # "idle" => \A k \in Dispatchable : \E n \in TaskIds : tasks[n].entry = k

\* the dispatch of task n found no entry to invoke so far
NoMatch(n) ==
    /\ tasks[n].pc # "ready"
    /\ \A k \in 1..Len(tasks[n].evaluated) : tasks[n].evaluated[k].result = "reject"

\* C26: a dispatch for which the chain is empty or no entry accepts is a
\* no-op: it ends without error, invokes no callback, notifies no error
\* handler, and process_entries returns.
C26_NoMatchNoOp ==
    \A n \in TaskIds :
        NoMatch(n) =>
            /\ tasks[n].pc # "failed" /\ tasks[n].exc = None
            /\ tasks[n].invoked = << >> /\ tasks[n].dpc = "none"
            /\ tasks[n].notified = << >> /\ tasks[n].epc = "none"
            /\ pe.state # "raised" /\ pe.exc = None
            /\ (tasks[n].pc = "done" /\ pe.state = "gather") => ENABLED process_entries_return

\* both entries of the chain rejected the event and process_entries returned
C26_Witness ==
    \E n \in TaskIds :
        /\ Len(message_handlers) = 2
        /\ Len(tasks[n].evaluated) = 2
        /\ NoMatch(n)
        /\ tasks[n].pc = "done"
        /\ pe.state = "returned"

\* C27: the direct call and the decorator have the same outcome for the same
\* explicit filters and keywords: a call of register_message_handler without
\* explicit filters is a step the decorator without explicit filters makes
\* too, and the other way round.
C27_DecoratorEquivalent ==
    [][ \A s \in StateArgs, rt \in RunTaskArgs :
            /\ register_message_handler(None, s, rt) => message_handler(s, rt)
            /\ message_handler(s, rt) =>
                    \E cf \in {None, "tuple"} : register_message_handler(cf, s, rt) ]_vars

\* the types in a resolved filter set
Resolved == {last_call.result.filters[k] : k \in 1..Len(last_call.result.filters)}

\* C28: a filter set resolved for the message chain holds no ExceptionsFilter,
\* one resolved for the error chain holds no StateFilter, Command, Text,
\* Regexp, IDFilter or IsReplyFilter, and StateFilter is eligible for every
\* chain but the error chain.
C28_FiltersBoundToChains ==
    /\ (last_call.fn = "resolve" /\ last_call.result.raised = None) =>
          /\ last_call.chain = "message_handlers" => "ExceptionsFilter" \notin Resolved
          /\ last_call.chain = "errors_handlers" => Resolved \subseteq {"ExceptionsFilter"}
          /\ "StateFilter" \in Resolved <=> last_call.chain # "errors_handlers"
    /\ \A chain \in Chains :
          Eligible(setup_filters[1], chain) <=> chain # "errors_handlers"

\* exception= resolved for the error chain gives the ExceptionsFilter alone
C28_Witness ==
    /\ last_call.fn = "resolve"
    /\ last_call.chain = "errors_handlers"
    /\ last_call.given = {"exception"}
    /\ last_call.result.raised = None
    /\ last_call.result.filters = <<"ExceptionsFilter">>

\* C29: a call of register_message_handler appends one entry at the end of the
\* message chain, or fails and leaves the message chain as it was; the events
\* chain and the error chain are unchanged either way.
C29_RegistrationFrame ==
    [][ (\E cf \in {None, "tuple"}, s \in StateArgs, rt \in RunTaskArgs :
            register_message_handler(cf, s, rt)) =>
          /\ events_handler' = events_handler
          /\ errors_handlers' = errors_handlers
          /\ \/ /\ reg_result' = "registered"
                /\ Len(message_handlers') = Len(message_handlers) + 1
                /\ SubSeq(message_handlers', 1, Len(message_handlers)) = message_handlers
             \/ /\ reg_result' # "registered"
                /\ message_handlers' = message_handlers ]_vars

\* a call failed after two had succeeded, and the chain has two entries
C29_Witness ==
    /\ reg_result = "TypeError"
    /\ Len(message_handlers) = 2

\* a step of the dispatch of task n
Step(n) ==
    \/ process_event(n)
    \/ \E custom \in FilterOutcomes : notify(n, custom)
    \/ handler_return(n)

\* C30: when one dispatch of a batch raised and process_entries failed, the
\* other dispatches are not cancelled: a dispatch ends with an exception only
\* when a filter of its own or its own inline handler raised, and a dispatch
\* that has not finished can go on.
C30_OthersNotCancelled ==
    \A n \in TaskIds :
        LET t == tasks[n]
        IN  /\ t.pc = "failed" =>
                  \/ /\ t.evaluated # << >>
                     /\ t.evaluated[Len(t.evaluated)].result = "raise"
                     /\ t.exc = "FilterError"
                  \/ /\ t.invoked # << >>
                     /\ ~message_handlers[t.invoked[Len(t.invoked)]].detached
                     /\ t.exc \in HandlerExceptions
            /\ (pe.state = "raised" /\ t.pc \in {"ready", "notify", "handler"}) =>
                  ENABLED Step(n)

\* process_entries has failed with the exception of one dispatch while the
\* handler of the other dispatch of the batch is still running
C30_Witness ==
    \E n, m \in TaskIds :
        /\ pe.state = "raised"
        /\ tasks[n].pc = "failed"
        /\ pe.exc = tasks[n].exc
        /\ tasks[m].pc = "handler"

\* C31: Command.check never raises on message text: for every text,
\* including the empty text and a text made only of whitespace, the check
\* returns a reject or an accept mapping and not an error.
C31_CommandCheckNeverRaises ==
    last_call.fn = "Command.check" =>
        /\ last_call.result.raised = None
        /\ \/ last_call.result = Rejected
           \/ /\ last_call.result.accept
              /\ last_call.result.keys = {"command"}

====
